---------------------------- MODULE Spec2Model ----------------------------
(***************************************************************************)
(* Model of the analysis endpoint of app.py (gemini_analysis): request     *)
(* validation, candidate-event context assembly, the tool-calling loop     *)
(* with the generative model, and the final bounded answer.                *)
(*                                                                         *)
(* Python values are modelled as follows.  A str that the code only passes *)
(* around is a TLA+ string.  A search query is a sequence of one-character *)
(* strings.  A text of the model is the sequence of its runs: a run is a   *)
(* character and the number of times it is repeated, no run is empty and   *)
(* neighbouring runs have different characters, so that equal texts are    *)
(* equal values.  None is the value NoneV, a missing dictionary key is the *)
(* value Absent.                                                           *)
(***************************************************************************)
EXTENDS Integers, Sequences, FiniteSets, TLC

\* ------------------------------------------------------------ bounds ----
\* longest model turn, in content parts
MaxParts == 2
\* longest result of the event source, in documents
MaxEvents == 1
\* the counters of messages and tool executions stop counting here
\* (they are observers of the run, the code has no such counter)
MaxTrips == 7
MaxRuns == 2

\* ------------------------------------------------- python primitives ----
NoneV == "<None>"
Absent == "<absent>"

\* dict.get(key): None for a missing key
Get(d, k) == IF d[k] = Absent THEN NoneV ELSE d[k]

\* dict.get(key, default)
GetDefault(d, k, default) == IF d[k] = Absent THEN default ELSE d[k]

\* variant that tests a value against None only
Truthy_NotNone(v) == v # NoneV

\* truth value of a str-or-None
Truthy(v) == v \notin {NoneV, ""}

\* str(v) as an f-string renders it
Str(v) == IF v = NoneV THEN "None" ELSE v

\* n copies of the character c
Rep(c, n) == IF n = 0 THEN <<>> ELSE <<[ch |-> c, n |-> n]>>

\* len(t)
RECURSIVE TextLen(_)
TextLen(t) == IF t = <<>> THEN 0 ELSE Head(t).n + TextLen(Tail(t))

\* a + b
Concat(a, b) ==
    IF a = <<>> THEN b
    ELSE IF b = <<>> THEN a
    ELSE IF a[Len(a)].ch = b[1].ch
         THEN SubSeq(a, 1, Len(a) - 1)
              \o <<[ch |-> b[1].ch, n |-> a[Len(a)].n + b[1].n]>>
              \o Tail(b)
         ELSE a \o b

\* t[:n]
RECURSIVE Prefix(_, _)
Prefix(t, n) ==
    IF t = <<>> \/ n <= 0 THEN <<>>
    ELSE IF Head(t).n >= n THEN <<[ch |-> Head(t).ch, n |-> n]>>
    ELSE <<Head(t)>> \o Prefix(Tail(t), n - Head(t).n)

\* sub in s
Contains(s, sub) ==
    \E i \in 1..(Len(s) - Len(sub) + 1) : SubSeq(s, i, i + Len(sub) - 1) = sub

LowerChar(c) ==
    CASE c = "I" -> "i" [] c = "A" -> "a" [] c = "S" -> "s"
      [] c = "R" -> "r" [] c = "H" -> "h" [] OTHER -> c

\* s.lower()
Lower(s) == [i \in 1..Len(s) |-> LowerChar(s[i])]

Inc(n, max) == IF n < max THEN n + 1 ELSE n

Add(n, k, max) == IF n + k < max THEN n + k ELSE max

\* ------------------------------------------------------ search tool ----
K_latitude == <<"l","a","t","i","t","u","d","e","5","9",".","e","e">>
K_slush == <<"s","l","u","s","h",".","o","r","g">>
K_websummit == <<"w","e","b","s","u","m","m","i","t",".","c","o","m">>
K_mwc == <<"m","w","c","b","a","r","c","e","l","o","n","a",".","c","o","m">>
K_disrupt == <<"t","e","c","h","c","r","u","n","c","h",".","c","o","m","/","e","v","e","n","t","s","/","d","i","s","r","u","p","t">>
K_voicit == <<"v","o","i","c","i","t",".","e","s">>
K_kimera == <<"k","i","m","e","r","a","t","e","c","h","n","o","l","o","g","i","e","s",".","c","o","m">>
K_ia == <<"i","a">>
K_ia_long == <<"i","n","t","e","l","i","g","e","n","c","i","a"," ","a","r","t","i","f","i","c","i","a","l">>
K_rrhh == <<"r","r","h","h">>
K_rrhh_long == <<"r","e","c","u","r","s","o","s"," ","h","u","m","a","n","o","s">>
K_saas == <<"s","a","a","s">>
K_saas_long == <<"s","o","f","t","w","a","r","e"," ","c","o","m","o"," ","s","e","r","v","i","c","i","o">>

\* one of the fixed page texts the simulated search returns
Page(about) == [about |-> about, quoted |-> <<>>]

\* the simulated search: the first matching branch decides the page text,
\* the last branch quotes the query
search_internet(query) ==
    IF Contains(query, K_latitude) THEN Page("latitude59")
    ELSE IF Contains(query, K_slush) THEN Page("slush")
    ELSE IF Contains(query, K_websummit) THEN Page("websummit")
    ELSE IF Contains(query, K_mwc) THEN Page("mwc")
    ELSE IF Contains(query, K_disrupt) THEN Page("disrupt")
    ELSE IF Contains(query, K_voicit) \/ Contains(query, K_kimera)
         THEN Page("startup")
    ELSE IF Contains(Lower(query), K_ia) \/ Contains(Lower(query), K_ia_long)
         THEN Page("ia")
    ELSE IF Contains(Lower(query), K_rrhh) \/ Contains(Lower(query), K_rrhh_long)
         THEN Page("rrhh")
    ELSE IF Contains(Lower(query), K_saas) \/ Contains(Lower(query), K_saas_long)
         THEN Page("saas")
    ELSE [about |-> "generic", quoted |-> query]

\* ------------------------------------------------------- the request ----
Fields ==
    {"eventName", "eventWebsite", "startupName",
     "startupDescription", "startupSector", "startupWebsite"}

\* what one field of the posted JSON can be: missing, null, "" or a text
FieldValues(f) ==
    {Absent, NoneV, ""} \cup (IF f = "eventName" THEN {"Slush"} ELSE {"v"})

\* the posted body: a JSON object, or no JSON object at all (request.json
\* is then None)
Bodies ==
    {[is_object |-> TRUE, fields |-> fs] :
        fs \in {g \in [Fields -> {Absent, NoneV, "", "Slush", "v"}] :
                   \A f \in Fields : g[f] \in FieldValues(f)}}
    \cup {[is_object |-> FALSE, fields |-> [f \in Fields |-> Absent]]}

\* ------------------------------------------------- the event source ----
DateTime(iso) == [is_datetime |-> TRUE, iso |-> iso]
NoDate == [is_datetime |-> FALSE, iso |-> ""]

\* documents of the events collection
DocSlush ==
    [name |-> "Slush", description |-> "conference", location |-> "Helsinki",
     initialDate |-> DateTime("2025-11-30T00:00:00"),
     finalDate |-> DateTime("2025-12-01T00:00:00"),
     website |-> "https://www.slush.org/"]

DocWebSummit ==
    [name |-> "Web Summit", description |-> Absent, location |-> Absent,
     initialDate |-> NoDate, finalDate |-> NoDate, website |-> Absent]

Docs == {DocSlush, DocWebSummit}

SeqsUpTo(S, n) == UNION {[1..k -> S] : k \in 0..n}

\* a cursor of events_collection.find({}): the documents it has yet to
\* yield and, when the source fails, the number of documents it yields
\* before it raises (fail_after = -1: it does not fail)
SourcesOf(D, n) ==
    {src \in [docs : SeqsUpTo(D, n), fail_after : -1..n] :
        src.fail_after <= Len(src.docs)}

Sources == SourcesOf(Docs, MaxEvents)

\* no cursor yet, or a cursor that was read to its end or to its failure
NoSource == [docs |-> <<>>, fail_after |-> -1]

\* the dictionary the code appends for one document
Project(event) ==
    [name |-> Get(event, "name"),
     description |-> GetDefault(event, "description", "No hay descripción disponible."),
     location |-> Get(event, "location"),
     initialDate |-> IF event.initialDate.is_datetime
                     THEN event.initialDate.iso ELSE NoneV,
     finalDate |-> IF event.finalDate.is_datetime
                   THEN event.finalDate.iso ELSE NoneV,
     website |-> Get(event, "website")]

\* the documents read before the cursor raises (all of them if it does not)
ReadEvents(src) ==
    LET n == IF src.fail_after = -1 THEN Len(src.docs) ELSE src.fail_after
    IN  [i \in 1..n |-> Project(src.docs[i])]

SourceRaises(src) == src.fail_after # -1

\* one line of the candidate list
EventLine(e) ==
    <<"- Nombre: ", Str(e.name), ", Descripción: ", Str(e.description),
      ", Ubicación: ", Str(e.location), ", Fechas: ", Str(e.initialDate),
      " a ", Str(e.finalDate)>>

\* variant that lists every event, the evaluated one too
SelectLines_KeepsAll(events, event_name) ==
    [i \in 1..Len(events) |-> EventLine(events[i])]

\* the lines of the events whose name differs from event_name, in order
RECURSIVE SelectLines(_, _)
SelectLines(events, event_name) ==
    IF events = <<>> THEN <<>>
    ELSE LET rest == SelectLines(Tail(events), event_name)
         IN  IF Head(events).name # event_name
             THEN <<EventLine(Head(events))>> \o rest
             ELSE rest

\* "\n".join(lines)
RECURSIVE Join(_)
Join(lines) ==
    IF lines = <<>> THEN <<>>
    ELSE IF Len(lines) = 1 THEN <<Head(lines)>>
    ELSE <<Head(lines), <<"\n">> >> \o Join(Tail(lines))

EventsListStr(all_events, event_name) == Join(SelectLines(all_events, event_name))

NoEventsSentinel == << <<"No hay otros eventos disponibles para recomendar.">> >>

\* the variable parts of the prompt
BuildPrompt(fields, events_list_str) ==
    [startup_name |-> fields["startupName"],
     startup_description |-> fields["startupDescription"],
     startup_sector |-> fields["startupSector"],
     startup_website |-> fields["startupWebsite"],
     event_name |-> fields["eventName"],
     event_website |-> fields["eventWebsite"],
     candidates |-> IF events_list_str # <<>> THEN events_list_str
                    ELSE NoEventsSentinel]

NoPrompt == [kind |-> "none"]

\* ---------------------------------------------------- model turns ----
\* texts the model can answer with: nothing, a short answer, and an answer
\* one character longer than the length limit
TextEmpty == <<>>
TextShort == Concat(Rep("o", 1), Rep("k", 1))
TextLong == Concat(Rep("a", 700), Rep("b", 1))

Texts == {TextEmpty, TextShort, TextLong}

NoArgs == [has_query |-> FALSE, query |-> <<>>]
QueryArgs(q) == [has_query |-> TRUE, query |-> q]

\* a content part: a text part, or a function_call part (name # "")
TextPart(t) == [text |-> t, name |-> "", args |-> NoArgs]
CallPart(n, a) == [text |-> <<>>, name |-> n, args |-> a]

QuerySlush == <<"h","t","t","p","s",":","/","/">> \o K_slush

CallParts ==
    {CallPart("search_internet", QueryArgs(QuerySlush)),
     CallPart("search_internet", NoArgs),
     CallPart("get_weather", QueryArgs(QuerySlush))}

Parts == {TextPart(t) : t \in Texts} \cup CallParts

\* part.function_call is set
HasCall(part) == part.name # ""

\* a response of the model: candidates may be empty, the first candidate
\* may have no content, the content may have no parts
Response(has_candidates, has_content, parts) ==
    [has_candidates |-> has_candidates, has_content |-> has_content, parts |-> parts]

NoResponse == Response(FALSE, FALSE, <<>>)

ResponsesUpTo(n) ==
    {NoResponse, Response(TRUE, FALSE, <<>>)}
    \cup {Response(TRUE, TRUE, ps) : ps \in SeqsUpTo(Parts, n)}

Responses == ResponsesUpTo(MaxParts)

\* what chat.send_message can do: answer, or raise
OutcomesOf(R) == {[raised |-> FALSE, response |-> r] : r \in R}
                 \cup {[raised |-> TRUE, response |-> NoResponse]}

SendOutcomes == OutcomesOf(Responses)

\* the guard of the loop and of the final branch: candidates, content and
\* at least one part are there
WellFormed(r) == r.has_candidates /\ r.has_content /\ Len(r.parts) > 0

\* variant that collects only the first function call of a turn
FunctionCalls_FirstOnly(parts) ==
    LET at == {i \in 1..Len(parts) : HasCall(parts[i])}
    IN  IF at = {} THEN <<>>
        ELSE LET i == CHOOSE i \in at : \A k \in at : i <= k
             IN  <<[name |-> parts[i].name, args |-> parts[i].args]>>

\* the function calls of a turn, in the order of its parts
RECURSIVE FunctionCalls(_)
FunctionCalls(parts) ==
    IF parts = <<>> THEN <<>>
    ELSE IF HasCall(Head(parts))
         THEN <<[name |-> Head(parts).name, args |-> Head(parts).args]>>
              \o FunctionCalls(Tail(parts))
         ELSE FunctionCalls(Tail(parts))

\* the function_response part the code builds for one call
ToolResult(name, key, payload) == [name |-> name, key |-> key, payload |-> payload]

UnknownToolPayload == [about |-> "Herramienta no reconocida o no implementada.", quoted |-> <<>>]

\* does handling this call raise?  call.args['query'] raises KeyError
Raises(call) == call.name = "search_internet" /\ ~call.args.has_query

AnswerCall(call) ==
    IF call.name = "search_internet"
    THEN ToolResult("search_internet", "result", search_internet(call.args.query))
    ELSE ToolResult(call.name, "error", UnknownToolPayload)

\* variant of the for loop that runs the search handler twice for a call
RECURSIVE RunCalls_SearchesTwice(_, _, _, _)
RunCalls_SearchesTwice(calls, i, acc, runs) ==
    IF i > Len(calls) THEN [parts |-> acc, raised_at |-> 0, runs |-> runs]
    ELSE IF Raises(calls[i]) THEN [parts |-> acc, raised_at |-> i, runs |-> runs]
    ELSE RunCalls_SearchesTwice(calls, i + 1, Append(acc, AnswerCall(calls[i])),
                  IF calls[i].name = "search_internet" THEN runs + 2 ELSE runs)

\* variant of the for loop that leaves it after the first call
RunCalls_StopsAfterFirst(calls, i, acc, runs) ==
    IF i > Len(calls) THEN [parts |-> acc, raised_at |-> 0, runs |-> runs]
    ELSE IF Raises(calls[i]) THEN [parts |-> acc, raised_at |-> i, runs |-> runs]
    ELSE [parts |-> Append(acc, AnswerCall(calls[i])), raised_at |-> 0,
          runs |-> IF calls[i].name = "search_internet" THEN runs + 1 ELSE runs]

\* the for loop over the calls of a turn: the results appended so far, the
\* position of the call that raised (0: none), the number of executions of
\* the search handler
RECURSIVE RunCalls(_, _, _, _)
RunCalls(calls, i, acc, runs) ==
    IF i > Len(calls) THEN [parts |-> acc, raised_at |-> 0, runs |-> runs]
    ELSE IF Raises(calls[i]) THEN [parts |-> acc, raised_at |-> i, runs |-> runs]
    ELSE RunCalls(calls, i + 1, Append(acc, AnswerCall(calls[i])),
                  IF calls[i].name = "search_internet" THEN runs + 1 ELSE runs)

\* ------------------------------------------------------ the answer ----
\* the length limit of the analysis
MaxLength == 700

Ellipsis == Rep(".", 3)

\* the number of characters kept in front of the ellipsis
KeptLength == 697

\* variant that keeps max-length characters in front of the ellipsis
Truncate_KeepsLimit(t) ==
    IF TextLen(t) > MaxLength THEN Concat(Prefix(t, MaxLength), Ellipsis) ELSE t

\* variant that also cuts a text of exactly the limit
Truncate_AtLimit(t) ==
    IF TextLen(t) >= MaxLength THEN Concat(Prefix(t, KeptLength), Ellipsis) ELSE t

\* the truncation of the final text
Truncate(t) == IF TextLen(t) > MaxLength THEN Concat(Prefix(t, KeptLength), Ellipsis) ELSE t

\* variant of the final branch that does not look at the text
HasFinalText_AnyPart(r) == WellFormed(r)

\* the final branch: the first part of the last response has text
HasFinalText(r) == WellFormed(r) /\ TextLen(r.parts[1].text) > 0

\* the HTTP answer: {analysis: text}, or {error: message} with or without
\* details, or the framework's bare 500 page when the handler itself raises
Result(status, kind, analysis, error, details) ==
    [status |-> status, kind |-> kind, analysis |-> analysis,
     error |-> error, details |-> details]

NoResult == Result(0, "none", <<>>, "", FALSE)
Success(text) == Result(200, "analysis", text, "", FALSE)
Failure(status, message, details) == Result(status, "error", <<>>, message, details)
Unhandled == Result(500, "unhandled", <<>>, "Internal Server Error", FALSE)

ErrMissing == "Faltan datos en la solicitud para el análisis de Gemini."
ErrNoText == "Gemini no pudo generar un análisis válido. Inténtalo de nuevo. Revisa los logs del servidor para más detalles."
ErrUnexpected == "Fallo al obtener el análisis de Gemini"

\* ------------------------------------------------------------ state ----
VARIABLES
    pc,                           \* the position of the handler
    data,                         \* request.json
    args,                         \* event_name, event_website, startup_...
    source,                       \* events_cursor
    all_events_for_gemini,
    prompt,
    response,                     \* the latest answer of the model
    current_turn_function_calls,
    tool_responses_parts,
    result,                       \* the HTTP answer of the handler
    in_flight,                    \* the message send_message is sending
    sends,                        \* observer: messages sent to the model
    tool_turns,                   \* observer: turns that asked for tools
    search_requests,              \* observer: search_internet calls asked for
    search_runs,                  \* observer: search_internet executions
    source_queries,               \* observer: queries of the event source
    failure,                      \* observer: what raised, if anything
    parked                        \* the frame of a second request, if any

vars ==
    <<pc, data, args, source, all_events_for_gemini, prompt, response,
      current_turn_function_calls, tool_responses_parts, result, in_flight,
      sends, tool_turns, search_requests, search_runs, source_queries, failure,
      parked>>

NoMessage == [kind |-> "none", parts |-> <<>>]
PromptMessage == [kind |-> "prompt", parts |-> <<>>]
ToolMessage(parts) == [kind |-> "tool_results", parts |-> parts]

\* no second request
NoFrame == [pc |-> "none"]

Init ==
    /\ pc = "receive"
    /\ data \in Bodies
    /\ args = [f \in Fields |-> NoneV]
    /\ source = NoSource
    /\ all_events_for_gemini = <<>>
    /\ prompt = NoPrompt
    /\ response = NoResponse
    /\ current_turn_function_calls = <<>>
    /\ tool_responses_parts = <<>>
    /\ result = NoResult
    /\ in_flight = NoMessage
    /\ sends = 0
    /\ tool_turns = 0
    /\ search_requests = 0
    /\ search_runs = 0
    /\ source_queries = 0
    /\ failure = "none"
    /\ parked = NoFrame

\* variants of the completeness test with a narrower list of fields
AllPresent_RequiredOnly(a) == Truthy(a["eventName"]) /\ Truthy(a["startupDescription"])

AllPresent_NoDescription(a) == \A f \in Fields \ {"startupDescription"} : Truthy(a[f])

\* all([...]) over the six fields
AllPresent(a) == \A f \in Fields : Truthy(a[f])

\* lines 175-187: read the fields, reject an incomplete request.  A body
\* that is no JSON object makes data.get raise before event_name is bound,
\* and the except clause, which logs event_name, raises in its turn.
Validate ==
    /\ pc = "receive"
    /\ IF ~data.is_object
       THEN /\ args' = args
            /\ result' = Unhandled
            /\ failure' = "body"
            /\ pc' = "done"
       ELSE LET a == [f \in Fields |-> Get(data.fields, f)]
            IN  /\ args' = a
                /\ failure' = failure
                /\ IF ~AllPresent(a)
                   THEN /\ result' = Failure(400, ErrMissing, FALSE)
                        /\ pc' = "done"
                   ELSE /\ result' = result
                        /\ pc' = "context"
    /\ UNCHANGED <<data, source, all_events_for_gemini, prompt, response,
                   current_turn_function_calls, tool_responses_parts,
                   in_flight, sends, tool_turns, search_requests,
                   search_runs, source_queries>>
    /\ parked' = parked

\* line 192: ask the event source for all the events; the cursor it
\* answers with is read in the next step
QueryEventsFrom(S) ==
    /\ pc = "context"
    /\ source' \in S
    /\ source_queries' = source_queries + 1
    /\ pc' = "read_events"
    /\ UNCHANGED <<data, args, all_events_for_gemini, prompt, response,
                   current_turn_function_calls, tool_responses_parts, result,
                   in_flight, sends, tool_turns, search_requests, search_runs,
                   failure>>
    /\ parked' = parked

QueryEvents == QueryEventsFrom(Sources)

\* lines 193-242: read the cursor (a failure of the source is logged and
\* keeps what was read), render the other events, build the prompt
AssembleContext ==
    /\ pc = "read_events"
    /\ source' = NoSource
    /\ all_events_for_gemini' = ReadEvents(source)
    /\ prompt' = BuildPrompt(args,
                    EventsListStr(ReadEvents(source), args["eventName"]))
    /\ pc' = "start_chat"
    /\ UNCHANGED <<data, args, response, current_turn_function_calls,
                   tool_responses_parts, result, in_flight, sends, tool_turns,
                   search_requests, search_runs, source_queries, failure>>
    /\ parked' = parked

\* lines 253-270, run on the response that arrived: leave the loop on a
\* response without parts or without a function call, else collect the
\* function calls of the turn
Inspect(r) ==
    IF ~WellFormed(r)
    THEN /\ pc' = "final"
         /\ UNCHANGED <<current_turn_function_calls, tool_turns>>
    ELSE /\ current_turn_function_calls' = FunctionCalls(r.parts)
         /\ IF FunctionCalls(r.parts) = <<>>
            THEN /\ pc' = "final"
                 /\ tool_turns' = tool_turns
            ELSE /\ pc' = "execute"
                 /\ tool_turns' = Inc(tool_turns, MaxTrips)

\* lines 244-246: start the chat and hand the prompt to send_message
SendPrompt ==
    /\ pc = "start_chat"
    /\ in_flight' = PromptMessage
    /\ sends' = Inc(sends, MaxTrips + 1)
    /\ pc' = "awaiting"
    /\ UNCHANGED <<data, args, source, all_events_for_gemini, prompt, response,
                   current_turn_function_calls, tool_responses_parts, result,
                   tool_turns, search_requests, search_runs, source_queries,
                   failure>>
    /\ parked' = parked

\* variant that does not empty the results buffer when the turn is back
ReceiveTurn_KeepsBuffer ==
    /\ pc = "awaiting"
    /\ in_flight' = NoMessage
    /\ \E out \in SendOutcomes :
          IF out.raised
          THEN /\ result' = Failure(500, ErrUnexpected, TRUE)
               /\ failure' = "transport"
               /\ pc' = "done"
               /\ UNCHANGED <<response, current_turn_function_calls, tool_turns>>
          ELSE /\ response' = out.response
               /\ Inspect(out.response)
               /\ UNCHANGED <<result, failure>>
    /\ UNCHANGED <<data, args, source, all_events_for_gemini, prompt, sends,
                   tool_responses_parts, search_requests, search_runs,
                   source_queries>>
    /\ parked' = parked

\* variant that sends the message again when send_message raises
ReceiveTurn_Retries ==
    /\ pc = "awaiting"
    /\ \E out \in SendOutcomes :
          IF out.raised
          THEN /\ failure' = "transport"
               /\ sends' = Inc(sends, MaxTrips + 1)
               /\ UNCHANGED <<pc, in_flight, result, response, tool_responses_parts,
                              current_turn_function_calls, tool_turns>>
          ELSE /\ in_flight' = NoMessage
               /\ response' = out.response
               /\ tool_responses_parts' = <<>>
               /\ Inspect(out.response)
               /\ UNCHANGED <<result, failure, sends>>
    /\ UNCHANGED <<data, args, source, all_events_for_gemini, prompt,
                   search_requests, search_runs, source_queries>>
    /\ parked' = parked

\* send_message returns or raises (lines 246 and 303); on a response the
\* results buffer is emptied (lines 250 and 304) and the loop inspects the
\* turn (lines 253-270)
ReceiveTurnFrom(O) ==
    /\ pc = "awaiting"
    /\ in_flight' = NoMessage
    /\ \E out \in O :
          IF out.raised
          THEN /\ result' = Failure(500, ErrUnexpected, TRUE)
               /\ failure' = "transport"
               /\ pc' = "done"
               /\ UNCHANGED <<response, tool_responses_parts,
                              current_turn_function_calls, tool_turns>>
          ELSE /\ response' = out.response
               /\ tool_responses_parts' = <<>>
               /\ Inspect(out.response)
               /\ UNCHANGED <<result, failure>>
    /\ UNCHANGED <<data, args, source, all_events_for_gemini, prompt, sends,
                   search_requests, search_runs, source_queries>>
    /\ parked' = parked

ReceiveTurn == ReceiveTurnFrom(SendOutcomes)

SearchCalls(calls) == {i \in 1..Len(calls) : calls[i].name = "search_internet"}

\* lines 273-299: answer the calls in order; a call that raises ends the
\* request in the except clause of the handler
ExecuteCalls ==
    /\ pc = "execute"
    /\ LET run == RunCalls(current_turn_function_calls, 1, tool_responses_parts, 0)
       IN  /\ tool_responses_parts' = run.parts
           /\ search_runs' = Add(search_runs, run.runs, MaxRuns)
           /\ search_requests' =
                 Add(search_requests,
                     Cardinality(SearchCalls(current_turn_function_calls)), MaxRuns)
           /\ IF run.raised_at # 0
              THEN /\ result' = Failure(500, ErrUnexpected, TRUE)
                   /\ failure' = "handler"
                   /\ pc' = "done"
              ELSE /\ pc' = "resubmit"
                   /\ UNCHANGED <<result, failure>>
    /\ UNCHANGED <<data, args, source, all_events_for_gemini, prompt, response,
                   current_turn_function_calls, in_flight, sends, tool_turns,
                   source_queries>>
    /\ parked' = parked

\* variant that answers with the text of the tool turn, when it has one,
\* in place of sending the results
Resubmit_ReturnsText ==
    /\ pc = "resubmit"
    /\ IF HasFinalText(response)
       THEN /\ result' = Success(Truncate(response.parts[1].text))
            /\ pc' = "done"
            /\ UNCHANGED <<in_flight, sends>>
       ELSE /\ in_flight' = ToolMessage(tool_responses_parts)
            /\ sends' = Inc(sends, MaxTrips + 1)
            /\ pc' = "awaiting"
            /\ result' = result
    /\ UNCHANGED <<data, args, source, all_events_for_gemini, prompt, response,
                   current_turn_function_calls, tool_responses_parts,
                   tool_turns, search_requests, search_runs, source_queries,
                   failure>>
    /\ parked' = parked

\* lines 301-303: hand all the results of the turn to send_message as one
\* message
Resubmit ==
    /\ pc = "resubmit"
    /\ in_flight' = ToolMessage(tool_responses_parts)
    /\ sends' = Inc(sends, MaxTrips + 1)
    /\ pc' = "awaiting"
    /\ UNCHANGED <<data, args, source, all_events_for_gemini, prompt, response,
                   current_turn_function_calls, tool_responses_parts, result,
                   tool_turns, search_requests, search_runs, source_queries,
                   failure>>
    /\ parked' = parked

\* lines 307-320: the text of the first part, truncated, or an error
Finalize ==
    /\ pc = "final"
    /\ result' = IF HasFinalText(response)
                 THEN Success(Truncate(response.parts[1].text))
                 ELSE Failure(500, ErrNoText, FALSE)
    /\ pc' = "done"
    /\ UNCHANGED <<data, args, source, all_events_for_gemini, prompt, response,
                   current_turn_function_calls, tool_responses_parts,
                   in_flight, sends, tool_turns, search_requests, search_runs,
                   source_queries, failure>>
    /\ parked' = parked

Next ==
    \/ Validate
    \/ QueryEvents
    \/ AssembleContext
    \/ SendPrompt
    \/ ReceiveTurn
    \/ ExecuteCalls
    \/ Resubmit
    \/ Finalize

Spec == Init /\ [][Next]_vars

\* the handler runs to its return: every step is taken when it can be
FairSpec == Spec /\ WF_vars(Next)

\* ------------------------------------------- the final branch alone ----
\* longest tail of a sampled text, in characters
MaxTail == 4

\* lengths around nothing, the kept length and the limit
EdgeLengths ==
    {0, 1, KeptLength - 1, KeptLength, KeptLength + 1,
     MaxLength - 1, MaxLength, MaxLength + 1}

Chars == {"a", "."}

\* texts the model can answer with: a head and a tail, of letters or dots
EdgeTexts ==
    {Concat(Rep(c1, n1), Rep(c2, n2)) :
        c1 \in Chars, c2 \in Chars, n1 \in EdgeLengths, n2 \in 0..MaxTail}

\* a complete request
CompleteArgs == [f \in Fields |-> IF f = "eventName" THEN "Slush" ELSE "v"]

\* the handler has left the loop (line 307) on the first answer of the
\* model, a turn of one text part
FinalizeInit ==
    /\ pc = "final"
    /\ data = [is_object |-> TRUE, fields |-> CompleteArgs]
    /\ args = CompleteArgs
    /\ source = NoSource
    /\ all_events_for_gemini = <<>>
    /\ prompt = BuildPrompt(CompleteArgs, <<>>)
    /\ response \in {Response(TRUE, TRUE, <<TextPart(t)>>) : t \in EdgeTexts}
    /\ current_turn_function_calls = <<>>
    /\ tool_responses_parts = <<>>
    /\ result = NoResult
    /\ in_flight = NoMessage
    /\ sends = 1
    /\ tool_turns = 0
    /\ search_requests = 0
    /\ search_runs = 0
    /\ source_queries = 1
    /\ failure = "none"
    /\ parked = NoFrame

FinalizeNext == Finalize

FinalizeSpec == FinalizeInit /\ [][FinalizeNext]_vars

\* -------------------------------------- the context assembly alone ----
\* longest result of the event source when only the context is built
MaxContextEvents == 3

DocLatitude ==
    [name |-> "Latitude 59", description |-> "conference", location |-> "Tallinn",
     initialDate |-> DateTime("2025-05-21T00:00:00"),
     finalDate |-> DateTime("2025-05-23T00:00:00"),
     website |-> "https://latitude59.ee/"]

\* a document without a name: event.get("name") is None
DocNameless ==
    [name |-> Absent, description |-> "conference", location |-> Absent,
     initialDate |-> NoDate, finalDate |-> NoDate, website |-> Absent]

ContextDocs == Docs \cup {DocLatitude, DocNameless}

ContextSources == SourcesOf(ContextDocs, MaxContextEvents)

QueryContextEvents == QueryEventsFrom(ContextSources)

\* lines 175-242: the handler up to the prompt
ContextNext ==
    \/ Validate
    \/ QueryContextEvents
    \/ AssembleContext

ContextSpec == Init /\ [][ContextNext]_vars

\* ------------------------------------------- two requests at once ----
\* the frame of the running request: the locals of gemini_analysis, its
\* chat, and the observers of that request
Frame ==
    [pc |-> pc,
     data |-> data,
     args |-> args,
     source |-> source,
     all_events_for_gemini |-> all_events_for_gemini,
     prompt |-> prompt,
     response |-> response,
     current_turn_function_calls |-> current_turn_function_calls,
     tool_responses_parts |-> tool_responses_parts,
     result |-> result,
     in_flight |-> in_flight,
     sends |-> sends,
     tool_turns |-> tool_turns,
     search_requests |-> search_requests,
     search_runs |-> search_runs,
     source_queries |-> source_queries,
     failure |-> failure]

\* the running request is in frame f
Running(f) ==
    /\ pc = f.pc
    /\ data = f.data
    /\ args = f.args
    /\ source = f.source
    /\ all_events_for_gemini = f.all_events_for_gemini
    /\ prompt = f.prompt
    /\ response = f.response
    /\ current_turn_function_calls = f.current_turn_function_calls
    /\ tool_responses_parts = f.tool_responses_parts
    /\ result = f.result
    /\ in_flight = f.in_flight
    /\ sends = f.sends
    /\ tool_turns = f.tool_turns
    /\ search_requests = f.search_requests
    /\ search_runs = f.search_runs
    /\ source_queries = f.source_queries
    /\ failure = f.failure

\* the request of frame f goes on
Resume(f) ==
    /\ pc' = f.pc
    /\ data' = f.data
    /\ args' = f.args
    /\ source' = f.source
    /\ all_events_for_gemini' = f.all_events_for_gemini
    /\ prompt' = f.prompt
    /\ response' = f.response
    /\ current_turn_function_calls' = f.current_turn_function_calls
    /\ tool_responses_parts' = f.tool_responses_parts
    /\ result' = f.result
    /\ in_flight' = f.in_flight
    /\ sends' = f.sends
    /\ tool_turns' = f.tool_turns
    /\ search_requests' = f.search_requests
    /\ search_runs' = f.search_runs
    /\ source_queries' = f.source_queries
    /\ failure' = f.failure

\* variant in which the results buffer is one list shared by all requests
Switch_SharedBuffer ==
    /\ parked # NoFrame
    /\ parked' = Frame
    /\ Resume([parked EXCEPT !.tool_responses_parts = tool_responses_parts])

\* the server runs each request in a thread of its own (app.run, line
\* 435): at any step the running handler can be suspended and the other
\* one resumed, each with its own frame
Switch ==
    /\ parked # NoFrame
    /\ parked' = Frame
    /\ Resume(parked)

\* a request deep in its tool loop, about to dispatch a turn of one
\* function call; its counters have stopped counting
LoopFrame(part) ==
    [pc |-> "execute",
     data |-> [is_object |-> TRUE, fields |-> CompleteArgs],
     args |-> CompleteArgs,
     source |-> NoSource,
     all_events_for_gemini |-> <<>>,
     prompt |-> BuildPrompt(CompleteArgs, <<>>),
     response |-> Response(TRUE, TRUE, <<part>>),
     current_turn_function_calls |-> FunctionCalls(<<part>>),
     tool_responses_parts |-> <<>>,
     result |-> NoResult,
     in_flight |-> NoMessage,
     sends |-> MaxTrips + 1,
     tool_turns |-> MaxTrips,
     search_requests |-> MaxRuns,
     search_runs |-> MaxRuns,
     source_queries |-> 1,
     failure |-> "none"]

ConcurrentInit ==
    /\ Running(LoopFrame(CallPart("search_internet", QueryArgs(QuerySlush))))
    /\ parked = LoopFrame(CallPart("get_weather", QueryArgs(QuerySlush)))

\* longest model turn when two requests run, in content parts
MaxConcurrentParts == 1

ConcurrentOutcomes == OutcomesOf(ResponsesUpTo(MaxConcurrentParts))

ReceiveConcurrentTurn == ReceiveTurnFrom(ConcurrentOutcomes)

ConcurrentNext ==
    \/ ReceiveConcurrentTurn
    \/ ExecuteCalls
    \/ Resubmit
    \/ Finalize
    \/ Switch

ConcurrentSpec == ConcurrentInit /\ [][ConcurrentNext]_vars

TypeOK ==
    /\ pc \in {"receive", "context", "read_events", "start_chat", "awaiting", "execute",
               "resubmit", "final", "done"}
    /\ sends \in 0..(MaxTrips + 1)
    /\ tool_turns \in 0..MaxTrips

\* ===================================================== properties ====
\* the round-trip limit the specification asks for (default 6)
RoundTripCap == 6

\* the number of tool-result messages sent so far
Resubmissions == IF sends = 0 THEN 0 ELSE sends - 1

\* the request passed validation
Accepted == pc \notin {"receive"} /\ data.is_object /\ result.status # 400

\* the six fields as posted
Supplied(f) == data.is_object /\ data.fields[f] \notin {Absent, NoneV, ""}

\* the results answer the calls one for one, in order, under the same name
Answers(parts, calls) ==
    /\ Len(parts) = Len(calls)
    /\ \A i \in 1..Len(calls) : parts[i].name = calls[i].name

\* the dispatch of the latest tool turn is over and the next turn has not
\* arrived: the results wait to be sent, are being sent, or a call raised
Dispatched ==
    /\ tool_turns > 0
    /\ \/ pc = "resubmit"
       \/ pc = "awaiting"
       \/ pc = "done" /\ failure = "handler"

\* the characters of all the text parts of a turn, in order
RECURSIVE TurnText(_)
TurnText(parts) ==
    IF parts = <<>> THEN <<>> ELSE Concat(Head(parts).text, TurnText(Tail(parts)))

\* a turn with no function call and no text at all
EmptyTurn(r) ==
    \/ ~WellFormed(r)
    \/ \A i \in 1..Len(r.parts) : ~HasCall(r.parts[i]) /\ r.parts[i].text = <<>>

\* C1: the number of tool-result resubmissions of a request never exceeds
\* the cap of 6, and a turn that still asks for tools after the cap-th
\* round trip is not dispatched (the request fails instead).
C1_RoundTripsCapped ==
    /\ Resubmissions <= RoundTripCap
    /\ tool_turns > RoundTripCap => pc # "execute"

\* C2: every request that passed validation eventually reaches a terminal
\* outcome, whatever the model answers.
C2_Terminates == <>(pc = "done")

\* C3: once a turn with k tool calls is dispatched there are exactly k
\* results, the i-th under the name of the i-th call, and they go to the
\* model as one message: one resubmission per tool turn.
C3_OneResultPerCall ==
    Dispatched =>
        /\ Answers(tool_responses_parts, current_turn_function_calls)
        /\ pc = "awaiting" => in_flight = ToolMessage(tool_responses_parts)
        /\ (pc = "awaiting" /\ tool_turns < MaxTrips) => sends = tool_turns + 1

\* C4 as stated: a request with non-empty eventName and startupDescription
\* passes validation, whichever optional fields are missing.
C4_RequiredFieldsSuffice ==
    (pc # "receive" /\ Supplied("eventName") /\ Supplied("startupDescription"))
        => result.status # 400

\* C4 amended: a request passes validation exactly when all six fields are
\* supplied non-empty; then a model call is made, and with one
\* search_internet round trip and a final turn that starts with text the
\* request ends with the success result {analysis: text}.
C4_AllSixFieldsRequired ==
    /\ (pc # "receive" /\ data.is_object) =>
          ((result.status = 400) <=> ~(\A f \in Fields : Supplied(f)))
    /\ (pc \in {"awaiting", "execute", "resubmit", "final", "done"}
          /\ \A f \in Fields : Supplied(f)) => sends >= 1
    /\ (pc = "done" /\ failure = "none" /\ (\A f \in Fields : Supplied(f))
          /\ tool_turns = 1 /\ search_runs = 1
          /\ WellFormed(response) /\ response.parts[1].text # <<>>)
        => /\ result.kind = "analysis"
           /\ result.analysis = Truncate(response.parts[1].text)

C4_Witness ==
    /\ pc = "done"
    /\ \A f \in Fields : Supplied(f)
    /\ sends = 2 /\ tool_turns = 1 /\ search_runs = 1
    /\ result = Success(TextShort)

\* C5: when eventName or startupDescription is missing from the posted
\* object the request ends with an error result and nothing was sent to
\* the model, no tool ran and the event source was not queried.
C5_RejectedBeforeAnyCall ==
    (data.is_object /\ (data.fields["eventName"] = Absent
                        \/ data.fields["startupDescription"] = Absent))
        => /\ pc \in {"receive", "done"}
           /\ sends = 0 /\ in_flight = NoMessage
           /\ tool_turns = 0 /\ search_runs = 0 /\ tool_responses_parts = <<>>
           /\ source_queries = 0
           /\ pc = "done" => result.kind = "error" /\ result.error # ""

C5_Witness ==
    /\ pc = "done"
    /\ data.fields["startupDescription"] = Absent
    /\ \A f \in Fields \ {"startupDescription"} : Supplied(f)
    /\ result = Failure(400, ErrMissing, FALSE)

\* C6: when the first turn of an accepted request has no tool call and
\* carries text, one message was sent, no tool ran and the answer is the
\* success result with that text, truncated if too long.
C6_FirstTurnTextReturned ==
    (pc = "done" /\ Accepted /\ failure = "none" /\ tool_turns = 0
        /\ WellFormed(response) /\ FunctionCalls(response.parts) = <<>>
        /\ TurnText(response.parts) # <<>>)
    => /\ sends = 1
       /\ search_runs = 0
       /\ result = Success(Truncate(TurnText(response.parts)))

\* C7: a dispatched batch with an unknown tool name has an error-shaped
\* result under that name, a result for every recognized call, is sent
\* back to the model, and the request has not ended in an error.
C7_UnknownToolDoesNotAbort ==
    (Dispatched /\ \E i \in 1..Len(current_turn_function_calls) :
                      current_turn_function_calls[i].name # "search_internet")
    => /\ pc # "done"
       /\ Answers(tool_responses_parts, current_turn_function_calls)
       /\ \A i \in 1..Len(current_turn_function_calls) :
             i <= Len(tool_responses_parts) =>
                 tool_responses_parts[i].key =
                     IF current_turn_function_calls[i].name = "search_internet"
                     THEN "result" ELSE "error"

\* C8: a call whose handling raises does not end the request: the batch is
\* still answered in full, with an error result for that call.
C8_HandlerErrorsContained ==
    (Dispatched /\ \E i \in 1..Len(current_turn_function_calls) :
                      Raises(current_turn_function_calls[i]))
    => /\ pc # "done"
       /\ failure # "handler"
       /\ Len(tool_responses_parts) = Len(current_turn_function_calls)
       /\ \A i \in 1..Len(tool_responses_parts) :
             Raises(current_turn_function_calls[i])
                 => tool_responses_parts[i].key = "error"

\* C9: when the event source raises while the cursor is read, the prompt
\* built from it carries the empty-list sentinel and no event read before
\* the failure, and the request goes on to the model.
C9_SourceFailureGivesEmptyList ==
    [][(pc = "read_events" /\ SourceRaises(source))
          => /\ prompt'.candidates = NoEventsSentinel
             /\ pc' = "start_chat"]_vars

\* C10: a success result is never empty, and a request that ends on a turn
\* with neither a tool call nor text ends with an error result that
\* carries a reason.
C10_NoEmptySuccess ==
    /\ result.kind = "analysis" => result.analysis # <<>>
    /\ (pc = "done" /\ Accepted /\ failure = "none" /\ EmptyTurn(response))
          => result.kind = "error" /\ result.error # ""

C10_Witness ==
    /\ pc = "done"
    /\ failure = "none"
    /\ response = Response(TRUE, TRUE, <<TextPart(TextEmpty)>>)
    /\ result = Failure(500, ErrNoText, FALSE)

\* C11: when send_message raises, for the prompt or for a resubmission, the
\* request ends at once with the error result that carries details; the step
\* that fails sends nothing and runs no tool, and no step follows it.
C11_SendFailureEndsRequest ==
    [][/\ failure # "transport"
       /\ failure' = "transport" =>
             /\ pc = "awaiting" /\ in_flight # NoMessage
             /\ pc' = "done"
             /\ result'.kind = "error" /\ result'.error # "" /\ result'.details
             /\ in_flight' = NoMessage
             /\ sends' = sends
             /\ search_runs' = search_runs
             /\ tool_responses_parts' = tool_responses_parts]_vars

C11_Witness ==
    /\ pc = "done"
    /\ failure = "transport"
    /\ sends >= 2 /\ tool_turns >= 1
    /\ result = Failure(500, ErrUnexpected, TRUE)

\* the i-th character of a text, counted from 1
RECURSIVE CharAt(_, _)
CharAt(t, i) ==
    IF Head(t).n >= i THEN Head(t).ch ELSE CharAt(Tail(t), i - Head(t).n)

\* no empty run, no two neighbouring runs of the same character
Canonical(t) ==
    \A k \in 1..Len(t) :
        /\ t[k].n > 0
        /\ k < Len(t) => t[k].ch # t[k + 1].ch

\* C12: the analysis of a success result is the text of the model unchanged
\* when that text has at most 700 characters; otherwise it is the first
\* 700 - 3 characters of the text followed by three dots.  It never has
\* more than 700 characters.
C12_FinalizeBoundsLength ==
    (pc = "done" /\ result.kind = "analysis") =>
        LET t == response.parts[1].text
            out == result.analysis
        IN  /\ Canonical(out)
            /\ TextLen(out) <= MaxLength
            /\ TextLen(t) <= MaxLength => out = t
            /\ TextLen(t) > MaxLength =>
                  /\ TextLen(out) = MaxLength
                  /\ \A i \in 1..(MaxLength - 3) : CharAt(out, i) = CharAt(t, i)
                  /\ \A i \in (MaxLength - 2)..MaxLength : CharAt(out, i) = "."

C12_Witness ==
    /\ pc = "done"
    /\ response.parts[1].text = Concat(Rep("a", MaxLength), Rep(".", 1))
    /\ result = Success(Concat(Rep("a", MaxLength - 3), Rep(".", 3)))

\* C13: truncating twice gives what truncating once gives, for the text of
\* the model and for the analysis returned, and a text of at most 700
\* characters is its own truncation.
C13_TruncationIdempotent ==
    LET t == response.parts[1].text
    IN  /\ Truncate(Truncate(t)) = Truncate(t)
        /\ TextLen(t) <= MaxLength => Truncate(t) = t
        /\ (pc = "done" /\ result.kind = "analysis")
              => Truncate(result.analysis) = result.analysis

C13_Witness ==
    /\ pc = "done"
    /\ response.parts[1].text = Concat(Rep(".", MaxLength), Rep("a", 1))
    /\ result = Success(Rep(".", MaxLength))
    /\ Truncate(result.analysis) = result.analysis

\* C14: when the latest turn of the model has no tool call and carries text
\* in any of its parts, the request ends with a success result, not with
\* an error.
C14_TextTurnIsFinal ==
    (pc = "done" /\ Accepted /\ failure = "none"
        /\ WellFormed(response) /\ FunctionCalls(response.parts) = <<>>
        /\ \E i \in 1..Len(response.parts) : response.parts[i].text # <<>>)
    => /\ result.status = 200
       /\ result.kind = "analysis"
       /\ result.analysis # <<>>

\* C15: when the event source answers without failing, the candidate list
\* of the prompt has exactly one line for each document whose name differs
\* from eventName, in the order of the source, with nothing else but the
\* line breaks between them; it is the empty-list sentinel exactly when no
\* document is left after the exclusion.
C15_CandidateListRendersOthers ==
    [][(pc = "read_events" /\ ~SourceRaises(source)) =>
          LET docs == source.docs
              kept == {i \in 1..Len(docs) : docs[i].name # args["eventName"]}
              rank(i) == Cardinality({k \in kept : k <= i})
              list == prompt'.candidates
          IN  /\ kept = {} <=> list = NoEventsSentinel
              /\ kept # {} =>
                    /\ Len(list) = 2 * Cardinality(kept) - 1
                    /\ \A i \in kept :
                          list[2 * rank(i) - 1] = EventLine(Project(docs[i]))
                    /\ \A j \in 1..(Cardinality(kept) - 1) : list[2 * j] = <<"\n">>
      ]_vars

C15_Witness ==
    /\ pc = "start_chat"
    /\ args["eventName"] = "Slush"
    /\ all_events_for_gemini =
          <<Project(DocWebSummit), Project(DocSlush), Project(DocLatitude)>>
    /\ prompt.candidates =
          <<EventLine(Project(DocWebSummit)), <<"\n">>, EventLine(Project(DocLatitude))>>

\* C16: while the latest turn of the model holds a function call, with or
\* without text, the handler is not in its final branch and has returned
\* no analysis; every function call of the turn, in the order of the
\* parts, is in the batch being dispatched, and when the dispatch is over
\* the batch has a result for each of them.
C16_ToolTurnIsDispatched ==
    LET parts == response.parts
        at == {i \in 1..Len(parts) : HasCall(parts[i])}
        rank(i) == Cardinality({k \in at : k <= i})
    IN  (WellFormed(response) /\ at # {}) =>
            /\ pc # "final"
            /\ result.kind # "analysis"
            /\ tool_turns >= 1
            /\ Len(current_turn_function_calls) = Cardinality(at)
            /\ \A i \in at :
                  current_turn_function_calls[rank(i)] =
                      [name |-> parts[i].name, args |-> parts[i].args]
            /\ pc = "resubmit" => Len(tool_responses_parts) = Cardinality(at)

C16_Witness ==
    /\ pc = "resubmit"
    /\ response.parts =
          <<TextPart(TextShort), CallPart("search_internet", QueryArgs(QuerySlush))>>
    /\ Len(tool_responses_parts) = 1
    /\ result = NoResult

\* C17: a message is on its way to the model exactly while the handler
\* waits for the answer, so there is never more than one round trip open
\* and nothing is dispatched or finalized meanwhile; a resubmission on its
\* way holds a result for every call of the pending batch, each produced
\* before it was sent.
C17_LoopIsSequential ==
    /\ in_flight # NoMessage <=> pc = "awaiting"
    /\ (pc = "awaiting" /\ in_flight.kind = "prompt") =>
          /\ sends = 1
          /\ tool_turns = 0 /\ tool_responses_parts = <<>>
    /\ (pc = "awaiting" /\ in_flight.kind = "tool_results") =>
          /\ sends >= 2
          /\ \A i \in 1..Len(current_turn_function_calls) :
                /\ i <= Len(in_flight.parts)
                /\ in_flight.parts[i] = AnswerCall(current_turn_function_calls[i])

C17_Witness ==
    /\ pc = "awaiting"
    /\ sends = 3
    /\ Len(current_turn_function_calls) = 2
    /\ in_flight =
          ToolMessage(<<AnswerCall(current_turn_function_calls[1]),
                        AnswerCall(current_turn_function_calls[2])>>)

\* the state of the conversation session, in the words of the
\* specification: no session before the chat is started or when the
\* request was rejected; AWAITING_MODEL while a message is on its way and
\* while the turn that came back is looked at; TOOL_CALLS_PENDING while the
\* batch is dispatched and until its results are sent; FINAL or FAILED once
\* the handler has returned
SessionState ==
    CASE pc \in {"receive", "context", "read_events", "start_chat"} -> "NONE"
      [] pc \in {"awaiting", "final"} -> "AWAITING_MODEL"
      [] pc \in {"execute", "resubmit"} -> "TOOL_CALLS_PENDING"
      [] pc = "done" /\ sends = 0 -> "NONE"
      [] pc = "done" /\ sends > 0 /\ result.kind = "analysis" -> "FINAL"
      [] OTHER -> "FAILED"

SessionTransitions ==
    {<<"NONE", "AWAITING_MODEL">>,
     <<"AWAITING_MODEL", "TOOL_CALLS_PENDING">>,
     <<"TOOL_CALLS_PENDING", "AWAITING_MODEL">>,
     <<"AWAITING_MODEL", "FINAL">>,
     <<"AWAITING_MODEL", "FAILED">>,
     <<"TOOL_CALLS_PENDING", "FAILED">>}

\* C19: the session changes state only along AWAITING_MODEL ->
\* TOOL_CALLS_PENDING, TOOL_CALLS_PENDING -> AWAITING_MODEL, AWAITING_MODEL
\* -> FINAL and any state -> FAILED; no step follows FINAL or FAILED, so
\* nothing is sent and no tool runs after them; the result is set once, in
\* the step that reaches FINAL or FAILED.
C19_SessionTransitions ==
    [][/\ SessionState \notin {"FINAL", "FAILED"}
       /\ result = NoResult
       /\ \/ SessionState' = SessionState
          \/ <<SessionState, SessionState'>> \in SessionTransitions
       /\ SessionState' \in {"FINAL", "FAILED"} <=> (result' # NoResult /\ sends' > 0)
       /\ sends' # sends => SessionState' = "AWAITING_MODEL"
       /\ search_runs' # search_runs => SessionState = "TOOL_CALLS_PENDING"
      ]_vars

C19_Witness ==
    /\ SessionState = "FINAL"
    /\ tool_turns = 2 /\ sends = 3
    /\ result = Success(TextShort)

\* the function-call parts of the latest turn
CallPartsOf(r) == {i \in 1..Len(r.parts) : HasCall(r.parts[i])}

\* C20: the results buffer is empty whenever the handler is about to
\* dispatch a turn or has left the loop, and a resubmission holds as many
\* results as the turn just received has function calls, the j-th under
\* the name of the j-th call: no result of an earlier turn is sent again.
C20_OnlyLatestResultsSent ==
    /\ pc \in {"receive", "context", "read_events", "start_chat", "execute", "final"}
          => tool_responses_parts = <<>>
    /\ (pc = "resubmit" \/ (pc = "awaiting" /\ in_flight.kind = "tool_results")) =>
          LET sent == IF pc = "resubmit" THEN tool_responses_parts ELSE in_flight.parts
              at == CallPartsOf(response)
          IN  /\ Len(sent) = Cardinality(at)
              /\ \A i \in at :
                    sent[Cardinality({k \in at : k <= i})].name = response.parts[i].name

C20_Witness ==
    /\ pc = "awaiting"
    /\ tool_turns = 2 /\ search_runs = 1
    /\ in_flight = ToolMessage(<<ToolResult("get_weather", "error", UnknownToolPayload)>>)

\* the results a request sends, or is about to send, are the answers to the
\* calls of its own batch, one for one
OwnResults(f) ==
    /\ f.pc \in {"execute", "final"} => f.tool_responses_parts = <<>>
    /\ f.pc = "resubmit" =>
          f.tool_responses_parts =
              [i \in 1..Len(f.current_turn_function_calls) |->
                  AnswerCall(f.current_turn_function_calls[i])]
    /\ (f.pc = "awaiting" /\ f.in_flight.kind = "tool_results") =>
          f.in_flight.parts =
              [i \in 1..Len(f.current_turn_function_calls) |->
                  AnswerCall(f.current_turn_function_calls[i])]

\* the result of a request follows from its own last turn and its own
\* failure
OwnOutcome(f) ==
    f.pc = "done" =>
        f.result =
            IF f.failure # "none" THEN Failure(500, ErrUnexpected, TRUE)
            ELSE IF WellFormed(f.response) /\ f.response.parts[1].text # <<>>
                 THEN Success(Truncate(f.response.parts[1].text))
                 ELSE Failure(500, ErrNoText, FALSE)

\* C18: of two requests that run at the same time, interleaved step by
\* step in any order, each sends in its resubmissions the results of its
\* own batch only, and each ends with the result of its own last turn,
\* whether or not the other one failed.
C18_RequestsAreIsolated ==
    \A f \in {Frame, parked} : OwnResults(f) /\ OwnOutcome(f)

C18_Witness ==
    /\ pc = "done"
    /\ result = Success(TextShort)
    /\ response.parts = <<TextPart(TextShort)>>
    /\ parked.pc = "done"
    /\ parked.failure = "transport"
    /\ parked.result = Failure(500, ErrUnexpected, TRUE)

\* the search_internet calls of the latest turn, by the place of their part
SearchPartsOf(r) ==
    {i \in 1..Len(r.parts) : r.parts[i].name = "search_internet"}

\* C21: when a request that started a conversation ends without a failure
\* of the transport or of a handler, it has sent one message more than the
\* model answered turns with function calls, and search_internet ran as
\* often as it was asked for; the handler never runs more often than it is
\* asked for, not at all before the first tool turn, and when a batch has
\* been dispatched its search results are as many as the search calls of
\* the latest turn.  (The counters stop at MaxTrips and MaxRuns.)
C21_MessagesAndRunsAddUp ==
    /\ search_runs <= search_requests
    /\ tool_turns = 0 =>
          /\ search_runs = 0 /\ search_requests = 0
          /\ tool_responses_parts = <<>>
    /\ pc = "resubmit" =>
          Cardinality({i \in 1..Len(tool_responses_parts) :
                          /\ tool_responses_parts[i].name = "search_internet"
                          /\ tool_responses_parts[i].key = "result"})
              = Cardinality(SearchPartsOf(response))
    /\ (pc = "done" /\ Accepted /\ failure = "none") =>
          /\ sends = tool_turns + 1
          /\ search_runs = search_requests

C21_Witness ==
    /\ pc = "done"
    /\ failure = "none"
    /\ result.kind = "analysis"
    /\ sends = 3 /\ tool_turns = 2
    /\ search_runs = 1 /\ search_requests = 1

\* C22: a request in which a field is present but empty, the empty string
\* or null, is treated as if the field were missing: it ends with the 400
\* error result, the event source is not queried and nothing is sent to
\* the model.
C22_EmptyFieldIsRejected ==
    (data.is_object /\ \E f \in Fields : data.fields[f] \in {NoneV, ""})
        => /\ pc \in {"receive", "done"}
           /\ source_queries = 0 /\ source = NoSource
           /\ sends = 0 /\ in_flight = NoMessage
           /\ prompt = NoPrompt
           /\ pc = "done" => result = Failure(400, ErrMissing, FALSE)

C22_Witness ==
    /\ pc = "done"
    /\ data.fields["eventName"] = ""
    /\ data.fields["startupDescription"] = NoneV
    /\ \A f \in Fields \ {"eventName", "startupDescription"} : Supplied(f)
    /\ result = Failure(400, ErrMissing, FALSE)
    /\ source_queries = 0 /\ sends = 0
=============================================================================
